---- MODULE Spec2Model ----
(***************************************************************************)
(* Square -> Postgres ETL (Andreas540/square-etl).                         *)
(*                                                                         *)
(* Six entry points (locations, categories, catalog, inventory, payments,  *)
(* orders) share one shape: fetch from the provider (src/square.ts), map   *)
(* raw records to rows, upsert the batch in one transaction.  A run is one *)
(* process; Runs are indexed so that two processes can be put side by side *)
(* (one after the other, or concurrently on the same store).               *)
(*                                                                         *)
(* Conventions of the model                                                *)
(*   Null      a scalar that is absent / undefined / null in JS            *)
(*   Absent    an object-valued field that is absent                       *)
(*   cursor 0  `undefined` (falsy); cursor k > 0 is the opaque token the   *)
(*             provider returned with page k                               *)
(*   raw_payload is the raw record itself (JSON.stringify is injective on  *)
(*             the records used here)                                      *)
(***************************************************************************)
EXTENDS Integers, Sequences, FiniteSets, TLC

\* ------------------------------------------------------------------ bounds
MaxPages == 2   \* pages the provider serves for one list query
MaxRecs  == 2   \* records over all pages of one list query
Max429   == 1   \* 429 answers the provider gives to the list requests of one run
MaxRetry == 2   \* 429 answers the provider gives during one run of a fetch that retries by calling itself

Runs == {1, 2}

Null   == "<null>"
Absent == [absent |-> TRUE]

\* the entry points; "catalog" is the catalog sync that also emits ITEM rows,
\* "variations" the catalog sync of src/etl-square-catalog.ts
Kinds      == {"locations", "categories", "catalog", "variations", "inventory",
               "payments", "orders"}
PagedKinds == {"categories", "catalog", "variations", "inventory", "payments"}

\* the table an entry point writes: both catalog syncs write pos.pos_catalog
Table(k) == IF k = "variations" THEN "catalog" ELSE k

Tables == { Table(k) : k \in Kinds }

\* ------------------------------------------------------- provider records
Money(a, c) == [amount |-> a, currency |-> c]

Truthy(s) == s # Null /\ s # ""

\* SquarePayment
Pay(id, order, total, amount) ==
    [id |-> id, created_at |-> "2025-01-01T10:00:00Z", updated_at |-> Null,
     location_id |-> "L1", order_id |-> order, status |-> "COMPLETED",
     customer_id |-> Null, reference_id |-> Null,
     amount_money |-> amount, total_money |-> total]

RawPayments ==
    { Pay("P1", "O1", Money("500", "USD"), Money("450", "USD")),
      Pay("P2", "O1", Absent, Money("300", "USD")),
      Pay("P3", "O2", Money("100", "EUR"), Absent),
      Pay("P4", Null, Money("700", "USD"), Absent),
      Pay("P5", "O2", Absent, Absent),
      Pay(Null, Null, Money("50", "USD"), Absent) }

\* SquareCategoryObject
Cat(id, deleted, data) ==
    [id |-> id, type |-> "CATEGORY", is_deleted |-> deleted, category_data |-> data]

CatData(name, top) == [name |-> name, is_top_level |-> top]

RawCategories ==
    { Cat("C1", Null, CatData("Drinks", "false")),
      Cat("C1", "true", CatData("Beverages", Null)),
      Cat("C2", "false", Absent),
      Cat(Null, Null, CatData("Orphan", "true")) }

\* SquareCatalogObject
CatObj(id, type, deleted, item, variation) ==
    [id |-> id, type |-> type, is_deleted |-> deleted,
     item_data |-> item, item_variation_data |-> variation]

ItemData(name, category) == [name |-> name, category_id |-> category]

VarData(name, sku, item) == [name |-> name, sku |-> sku, item_id |-> item]

RawCatalog ==
    { CatObj("I1", "ITEM", Null, ItemData("Latte", "C1"), Absent),
      CatObj("V1", "ITEM_VARIATION", Null, Absent, VarData("Large", "SKU1", "I1")),
      CatObj("V2", "ITEM_VARIATION", "true", Absent, VarData(Null, Null, "I9")),
      CatObj(Null, "ITEM_VARIATION", Null, Absent, VarData("Small", Null, "I1")),
      CatObj(Null, "ITEM", Null, ItemData("Ghost", Null), Absent) }

\* SquareInventoryCount; quantity is text, kept as its characters
Txt(chars) == [v |-> chars]

Count(id, loc, state, qty) ==
    [catalog_object_id |-> id, catalog_object_type |-> "ITEM_VARIATION",
     state |-> state, location_id |-> loc, quantity |-> qty,
     calculated_at |-> "2025-01-01T09:00:00Z"]

RawInventory ==
    { Count("V1", "L1", "IN_STOCK", Txt(<<"5">>)),
      Count("V1", "L1", "IN_STOCK", Txt(<<"7", ".", "5">>)),
      Count("V1", Null, Null, Absent),
      Count(Null, "L1", "IN_STOCK", Txt(<<"3">>)),
      Count("V2", "L1", "SOLD", Txt(<<"a", "b", "c">>)) }

\* SquareLocation
Addr(l1, loc, adm, pcode) ==
    [address_line_1 |-> l1, locality |-> loc,
     administrative_district_level_1 |-> adm, postal_code |-> pcode]

Loc(id, name, addr) ==
    [id |-> id, name |-> name, address |-> addr, timezone |-> "UTC", status |-> Null]

RawLocations ==
    { Loc("L1", "Main", Addr("1 Main St", "Springfield", Null, "12345")),
      Loc("L1", "Main", Addr("", Null, "", Null)),
      Loc("L2", "Kiosk", Absent),
      Loc("L2", "Kiosk", Addr(Null, "Shelbyville", "IL", "")),
      Loc(Null, "Ghost", Absent),
      Loc("L3", Null, Absent) }

\* SquareLineItem, SquareOrder
Line(uid, qty, base, total) ==
    [uid |-> uid, name |-> "Coffee", catalog_object_id |-> "V1", quantity |-> qty,
     base_price_money |-> base, total_money |-> total]

Items(lines) == [v |-> lines]

Order(id, items) == [id |-> id, location_id |-> "L1", line_items |-> items]

LineA    == Line("u1", Txt(<<"2">>), Money("250", "USD"), Money("500", "USD"))
LineB    == Line("u2", Txt(<<"1">>), Absent, Money("300", "EUR"))
LineNoId == Line(Null, Txt(<<"1">>), Money("250", "USD"), Absent)
LineZero == Line("u3", Txt(<<"0">>), Money("250", "USD"), Absent)
LineNoQty == Line("u4", Absent, Money("250", "USD"), Absent)

OrderIds == {"O1", "O2"}

NotFound == [status |-> 404, order |-> Absent]

Found(order) == [status |-> 200, order |-> order]

\* what GET /v2/orders/{id} may answer when it is not rate limiting or failing
OrderAnswers(id) ==
    IF id = "O1"
    THEN { NotFound, Found(Absent), Found(Order(id, Absent)),
           Found(Order(id, Items(<<LineA, LineB>>))),
           Found(Order(id, Items(<<LineNoId, LineA, LineZero>>))) }
    ELSE { NotFound, Found(Order(id, Items(<<>>))),
           Found(Order(id, Items(<<LineNoQty, LineB>>))) }

Raw(k) ==
    CASE k = "locations"  -> RawLocations
      [] k = "categories" -> RawCategories
      [] k = "catalog"    -> RawCatalog
      [] k = "variations" -> RawCatalog
      [] k = "inventory"  -> RawInventory
      [] k = "payments"   -> RawPayments
      [] k = "orders"     -> { p \in RawPayments : p.id # "P5" }

\* --------------------------------------------------------------- mappers
\* `x ?? d`
Coalesce(x, d) == IF x = Null THEN d ELSE x

\* `obj?.f`
Opt(obj, f) == IF obj = Absent THEN Null ELSE obj[f]

\* `flag === true` on a JSON boolean
IsTrue(flag) == flag = "true"

\* `flag ?? d` on a JSON boolean
BoolOr(flag, d) == IF flag = Null THEN d ELSE flag = "true"

Digit == [c \in {"0", "1", "2", "3", "4", "5", "6", "7", "8", "9"} |->
            CASE c = "0" -> 0 [] c = "1" -> 1 [] c = "2" -> 2 [] c = "3" -> 3
              [] c = "4" -> 4 [] c = "5" -> 5 [] c = "6" -> 6 [] c = "7" -> 7
              [] c = "8" -> 8 [] c = "9" -> 9]

RECURSIVE DigitRun(_)
DigitRun(cs) ==
    IF cs # <<>> /\ Head(cs) \in DOMAIN Digit
    THEN <<Head(cs)>> \o DigitRun(Tail(cs))
    ELSE <<>>

RECURSIVE DigitsValue(_)
DigitsValue(ds) ==
    IF ds = <<>> THEN 0
    ELSE 10 * DigitsValue(SubSeq(ds, 1, Len(ds) - 1)) + Digit[ds[Len(ds)]]

\* parseFloat on the characters of a text: optional sign, digits, optional
\* fraction, anything after is ignored; no digit at all is NaN.  The value is
\* kept in tenths (one fraction digit).
ParseFloat(cs) ==
    LET neg  == cs # <<>> /\ Head(cs) = "-"
        body == IF neg THEN Tail(cs) ELSE cs
        int  == DigitRun(body)
        rest == SubSeq(body, Len(int) + 1, Len(body))
        frac == IF rest # <<>> /\ Head(rest) = "." THEN DigitRun(Tail(rest)) ELSE <<>>
        mag  == 10 * DigitsValue(int) + (IF frac = <<>> THEN 0 ELSE Digit[frac[1]])
    IN  IF body # <<>> /\ Head(body) = "Infinity" THEN [finite |-> FALSE, val |-> 0]
        ELSE IF int = <<>> /\ frac = <<>> THEN [finite |-> FALSE, val |-> 0]
        ELSE [finite |-> TRUE, val |-> IF neg THEN 0 - mag ELSE mag]

\* `quantity ?? ""`
QuantityStr_Blank(q) == IF q = Absent THEN <<>> ELSE q.v

\* `quantity ?? "0"`
QuantityStr(q) == IF q = Absent THEN <<"0">> ELSE q.v

\* a join that only concatenates
Join_Plain(parts) == parts

\* `parts.join(", ")`
RECURSIVE Join(_)
Join(parts) ==
    IF Len(parts) <= 1 THEN parts
    ELSE <<Head(parts), ", ">> \o Join(Tail(parts))

Dropped == [dropped |-> TRUE]

mapLocationToRow(location) ==
    IF ~Truthy(location.id) \/ ~Truthy(location.name) THEN Dropped
    ELSE
      LET addr == location.address
          given == <<Opt(addr, "address_line_1"), Opt(addr, "locality"),
                     Opt(addr, "administrative_district_level_1"),
                     Opt(addr, "postal_code")>>
          addressParts == SelectSeq(given, Truthy)
          addressString == IF Len(addressParts) > 0 THEN Txt(Join(addressParts)) ELSE Absent
      IN  [location_id |-> location.id,
           location_name |-> location.name,
           address |-> addressString,
           timezone |-> location.timezone,
           status |-> location.status,
           raw_payload |-> location]

mapCategoryToRow(category) ==
    IF ~Truthy(category.id) THEN Dropped
    ELSE [category_id |-> category.id,
          category_name |-> Coalesce(Opt(category.category_data, "name"), "Unknown Category"),
          parent_category_id |-> Null,
          is_top_level |-> BoolOr(Opt(category.category_data, "is_top_level"), TRUE),
          is_deleted |-> IsTrue(category.is_deleted),
          raw_payload |-> category]

\* a variation mapper without the fallback to the variation's own name
mapVariationToRow_NoFallback(variation, parentName, parentCategoryId) ==
    IF ~Truthy(variation.id) THEN Dropped
    ELSE [catalog_object_id |-> variation.id,
          object_type |-> variation.type,
          item_name |-> parentName,
          variation_name |-> Opt(variation.item_variation_data, "name"),
          sku |-> Opt(variation.item_variation_data, "sku"),
          category_id |-> parentCategoryId,
          is_deleted |-> IsTrue(variation.is_deleted),
          raw_payload |-> variation]

mapVariationToRow(variation, parentName, parentCategoryId) ==
    IF ~Truthy(variation.id) THEN Dropped
    ELSE
      LET variationName == Opt(variation.item_variation_data, "name")
          sku == Opt(variation.item_variation_data, "sku")
      IN  [catalog_object_id |-> variation.id,
           object_type |-> variation.type,
           item_name |-> Coalesce(parentName, variationName),
           variation_name |-> variationName,
           sku |-> sku,
           category_id |-> parentCategoryId,
           is_deleted |-> IsTrue(variation.is_deleted),
           raw_payload |-> variation]

\* mapVariationToRow of src/etl-square-catalog.ts: two parameters, no category
mapVariationToRow2(variation, parentName) ==
    IF ~Truthy(variation.id) THEN Dropped
    ELSE
      LET variationName == Opt(variation.item_variation_data, "name")
          sku == Opt(variation.item_variation_data, "sku")
      IN  [catalog_object_id |-> variation.id,
           object_type |-> variation.type,
           item_name |-> Coalesce(parentName, variationName),
           variation_name |-> variationName,
           sku |-> sku,
           is_deleted |-> IsTrue(variation.is_deleted),
           raw_payload |-> variation]

mapInventoryCountToRow(count) ==
    IF ~Truthy(count.catalog_object_id) THEN Dropped
    ELSE
      LET quantity == ParseFloat(QuantityStr(count.quantity))
      IN  IF ~quantity.finite THEN Dropped
          ELSE [catalog_object_id |-> count.catalog_object_id,
                catalog_object_type |-> count.catalog_object_type,
                location_id |-> count.location_id,
                state |-> Coalesce(count.state, "UNKNOWN"),
                quantity |-> quantity.val,
                calculated_at |-> IF Truthy(count.calculated_at)
                                  THEN count.calculated_at ELSE Null,
                raw_payload |-> count]

\* `p.total_money ?? p.amount_money`
PaymentMoney(p) == IF p.total_money # Absent THEN p.total_money ELSE p.amount_money

\* mapPaymentToRow throws on a payment without money
PaymentThrows(p) == PaymentMoney(p) = Absent

mapPaymentToRow(p) ==
    [payment_id |-> p.id,
     order_id |-> p.order_id,
     location_id |-> p.location_id,
     created_at |-> p.created_at,
     updated_at |-> p.updated_at,
     amount |-> PaymentMoney(p).amount,
     currency |-> PaymentMoney(p).currency,
     status |-> p.status,
     customer_id |-> p.customer_id,
     reference_id |-> p.reference_id,
     raw_payload |-> p]

mapLineItemToRow(order, paymentId, lineItem) ==
    IF ~Truthy(lineItem.uid) THEN Dropped
    ELSE
      LET quantity == ParseFloat(QuantityStr(lineItem.quantity))
      IN  IF ~quantity.finite \/ quantity.val <= 0 THEN Dropped
          ELSE [order_id |-> order.id,
                payment_id |-> paymentId,
                line_item_uid |-> lineItem.uid,
                catalog_object_id |-> lineItem.catalog_object_id,
                item_name |-> lineItem.name,
                sku |-> Null,
                quantity |-> quantity.val,
                base_price_amount |-> Opt(lineItem.base_price_money, "amount"),
                total_money_amount |-> Opt(lineItem.total_money, "amount"),
                currency |-> Coalesce(Opt(lineItem.base_price_money, "currency"),
                                      Opt(lineItem.total_money, "currency")),
                location_id |-> order.location_id,
                raw_payload |-> lineItem]

\* ------------------------------------------------------------- sequences
RECURSIVE Concat(_)
Concat(ss) == IF ss = <<>> THEN <<>> ELSE Head(ss) \o Concat(Tail(ss))

SeqsUpTo(S, n) == UNION { [1..m -> S] : m \in 0..n }

\* the ways to cut n pages out of len records: the ends of the first n-1 pages
Cuts(len, n) ==
    { b \in [1..(n - 1) -> 0..len] : \A i \in 1..(n - 2) : b[i] <= b[i + 1] }

\* the pages of recs cut at b
CutAt(recs, b) ==
    [i \in 1..(Len(b) + 1) |->
        SubSeq(recs, (IF i = 1 THEN 0 ELSE b[i - 1]) + 1,
                     IF i = Len(b) + 1 THEN Len(recs) ELSE b[i])]

\* every way the provider can serve at most MaxRecs records as 1..MaxPages pages
PageChains(S) ==
    UNION { { CutAt(recs, b) : b \in UNION { Cuts(Len(recs), n) : n \in 1..MaxPages } } :
            recs \in SeqsUpTo(S, MaxRecs) }

\* --------------------------------------------------------------- state
VARIABLES
    pages,      \* provider: the pages of the list query, in order
    store,      \* store[k]: the committed rows of kind k's table, oldest first
    clock,      \* the store's transaction clock
    kind,       \* kind[r]: the entry point run r executes
    cfg,        \* cfg[r]: TENANT_ID, POS_PROVIDER, POS_PROVIDER_ACCOUNT_ID of run r
    pc,         \* pc[r]: where run r is
    cursor,     \* cursor[r]: the list fetch's `cursor`
    all,        \* all[r]: the list fetch's `all`
    reqs,       \* reqs[r]: requests issued so far, each with the status answered
    n429,       \* n429[r]: 429 answers received so far
    o2p,        \* o2p[r]: orderToPayment, entries in insertion order
    oi,         \* oi[r]: position in uniqueOrderIds
    rows,       \* rows[r]: the batch handed to the upsert
    idx,        \* idx[r]: position in the batch inside the transaction
    pend,       \* pend[r]: rows written by r's open transaction
    stamp,      \* stamp[r]: CURRENT_TIMESTAMP of r's transaction
    err,        \* err[r]: the error thrown, Null when none
    code,       \* code[r]: the process exit code, -1 while running
    pre,        \* pre[r]: the store when run r started (history)
    commits,    \* the runs whose COMMIT succeeded, in commit order (history)
    nmap,       \* nmap[r]: records run r has handed to a mapper so far (history)
    log         \* log[r]: what run r asked of the pool and of its connection (history)

provVars  == <<pages>>
dbVars    == <<store, clock, pend, stamp, commits>>
fetchVars == <<cursor, all, reqs, n429>>
orderVars == <<o2p, oi>>
runVars   == <<kind, cfg, pre>>
vars == <<pages, store, clock, kind, cfg, pc, cursor, all, reqs, n429,
          o2p, oi, rows, idx, pend, stamp, err, code, pre, commits, nmap, log>>

\* ------------------------------------------------------------ list fetch
\* The page the provider serves for a request that carries cursor c.
PageFor(c) == pages[c + 1]

\* The cursor the provider returns with that page: absent on the last one.
NextCursor(c) == IF c + 1 < Len(pages) THEN c + 1 ELSE 0

Request(r, status) == [cursor |-> cursor[r], status |-> status]

\* `while (cursor)`: loop again on a truthy cursor, else `return all`.
LoopTest(c) == IF c # 0 THEN "fetch" ELSE "fetched"

IsListFetch(r) == pc[r] = "fetch" /\ kind[r] # "locations"

\* ListPage200 with `all = page` in place of `all.push(...page)`.
ListPage200_Overwrite(r) ==
    /\ IsListFetch(r)
    /\ reqs' = [reqs EXCEPT ![r] = Append(@, Request(r, 200))]
    /\ all' = [all EXCEPT ![r] = PageFor(cursor[r])]
    /\ cursor' = [cursor EXCEPT ![r] = NextCursor(cursor[r])]
    /\ pc' = [pc EXCEPT ![r] = LoopTest(NextCursor(cursor[r]))]
    /\ UNCHANGED <<log, provVars, nmap, dbVars, orderVars, runVars, n429, rows, idx, err, code>>

\* a list fetch that maps the records of each page as the page arrives
ListPage200_MapsPage(r) ==
    /\ IsListFetch(r)
    /\ reqs' = [reqs EXCEPT ![r] = Append(@, Request(r, 200))]
    /\ all' = [all EXCEPT ![r] = @ \o PageFor(cursor[r])]
    /\ cursor' = [cursor EXCEPT ![r] = NextCursor(cursor[r])]
    /\ pc' = [pc EXCEPT ![r] = LoopTest(NextCursor(cursor[r]))]
    /\ nmap' = [nmap EXCEPT ![r] = @ + Len(PageFor(cursor[r]))]
    /\ UNCHANGED <<log, provVars, dbVars, orderVars, runVars, n429, rows, idx, err, code>>

\* One pass of the do-body answered 200: push the page, replace the cursor,
\* then the loop test.
ListPage200(r) ==
    /\ IsListFetch(r)
    /\ reqs' = [reqs EXCEPT ![r] = Append(@, Request(r, 200))]
    /\ all' = [all EXCEPT ![r] = @ \o PageFor(cursor[r])]
    /\ cursor' = [cursor EXCEPT ![r] = NextCursor(cursor[r])]
    /\ pc' = [pc EXCEPT ![r] = LoopTest(NextCursor(cursor[r]))]
    /\ UNCHANGED <<log, provVars, nmap, dbVars, orderVars, runVars, n429, rows, idx, err, code>>

\* One pass answered 429: warn, start the 10 s timer.
ListPage429(r) ==
    /\ IsListFetch(r)
    /\ n429[r] < Max429
    /\ reqs' = [reqs EXCEPT ![r] = Append(@, Request(r, 429))]
    /\ n429' = [n429 EXCEPT ![r] = @ + 1]
    /\ pc' = [pc EXCEPT ![r] = "backoff"]
    /\ UNCHANGED <<log, provVars, nmap, dbVars, orderVars, runVars, cursor, all, rows, idx, err, code>>

\* a 429 branch that leaves the loop after the wait
BackoffDone_Returns(r) ==
    /\ pc[r] = "backoff"
    /\ pc' = [pc EXCEPT ![r] = "fetched"]
    /\ UNCHANGED <<log, provVars, nmap, dbVars, fetchVars, orderVars, runVars, rows, idx, err, code>>

\* The timer fires: `continue` in a do..while goes to the loop test.
BackoffDone(r) ==
    /\ pc[r] = "backoff"
    /\ pc' = [pc EXCEPT ![r] = LoopTest(cursor[r])]
    /\ UNCHANGED <<log, provVars, nmap, dbVars, fetchVars, orderVars, runVars, rows, idx, err, code>>

\* One pass answered with another non-2xx status: throw.
ListPageFail(r) ==
    /\ IsListFetch(r)
    /\ reqs' = [reqs EXCEPT ![r] = Append(@, Request(r, 500))]
    /\ err' = [err EXCEPT ![r] = "list request failed: 500"]
    /\ pc' = [pc EXCEPT ![r] = "threw"]
    /\ UNCHANGED <<log, provVars, nmap, dbVars, orderVars, runVars, cursor, all, n429, rows, idx, code>>

\* ------------------------------------------------------- fetchLocations
Others == <<provVars, nmap, dbVars, orderVars, runVars, rows, idx, code>>

\* 200: `return data.locations || []`
LocationsGet200(r) ==
    /\ pc[r] = "fetch" /\ kind[r] = "locations"
    /\ reqs' = [reqs EXCEPT ![r] = Append(@, Request(r, 200))]
    /\ all' = [all EXCEPT ![r] = PageFor(0)]
    /\ pc' = [pc EXCEPT ![r] = "fetched"]
    /\ UNCHANGED <<log, Others, cursor, n429, err>>

\* 429: warn, start the 10 s timer
LocationsGet429(r) ==
    /\ pc[r] = "fetch" /\ kind[r] = "locations"
    /\ n429[r] < MaxRetry
    /\ reqs' = [reqs EXCEPT ![r] = Append(@, Request(r, 429))]
    /\ n429' = [n429 EXCEPT ![r] = @ + 1]
    /\ pc' = [pc EXCEPT ![r] = "lbackoff"]
    /\ UNCHANGED <<log, Others, cursor, all, err>>

\* the timer fires: `return fetchLocations()`
LocationsRetry(r) ==
    /\ pc[r] = "lbackoff"
    /\ pc' = [pc EXCEPT ![r] = "fetch"]
    /\ UNCHANGED <<log, Others, fetchVars, err>>

LocationsGetFail(r) ==
    /\ pc[r] = "fetch" /\ kind[r] = "locations"
    /\ reqs' = [reqs EXCEPT ![r] = Append(@, Request(r, 500))]
    /\ err' = [err EXCEPT ![r] = "locations request failed: 500"]
    /\ pc' = [pc EXCEPT ![r] = "threw"]
    /\ UNCHANGED <<log, Others, cursor, all, n429>>

\* ------------------------------------------------------------------ map
Kept(x) == x # Dropped

\* the for-loop of main() over the mapped records: keep the rows that are not null
KeepRows(mapped) == SelectSeq(mapped, Kept)

IsItem(obj) == obj.type = "ITEM"

IsVariation(obj) == obj.type = "ITEM_VARIATION"

\* Map.get after the first loop of the catalog main(): the value set last for
\* the key, Null when the key was never set.  field is "name" / "category_id".
ItemLookup(objects, field, id) ==
    LET hits == { i \in 1..Len(objects) :
                    /\ IsItem(objects[i])
                    /\ objects[i].id = id
                    /\ Truthy(id)
                    /\ Truthy(Opt(objects[i].item_data, field)) }
    IN  IF hits = {} THEN Null
        ELSE Opt(objects[CHOOSE i \in hits : \A j \in hits : j <= i].item_data, field)

\* second loop of the catalog main()
VariationRow(objects, obj) ==
    LET parentItemId == Opt(obj.item_variation_data, "item_id")
        parentName == IF Truthy(parentItemId)
                      THEN ItemLookup(objects, "name", parentItemId) ELSE Null
        parentCategoryId == IF Truthy(parentItemId)
                            THEN ItemLookup(objects, "category_id", parentItemId) ELSE Null
    IN  mapVariationToRow(obj, parentName, parentCategoryId)

\* third loop of the catalog main()
ItemRow(obj) ==
    [catalog_object_id |-> obj.id,
     object_type |-> obj.type,
     item_name |-> Opt(obj.item_data, "name"),
     variation_name |-> Null,
     sku |-> Null,
     category_id |-> Opt(obj.item_data, "category_id"),
     is_deleted |-> BoolOr(obj.is_deleted, FALSE),
     raw_payload |-> obj]

\* the loop over the variations of src/etl-square-catalog.ts
VariationRow2(objects, obj) ==
    LET parentItemId == Opt(obj.item_variation_data, "item_id")
        parentName == IF Truthy(parentItemId)
                      THEN ItemLookup(objects, "name", parentItemId) ELSE Null
    IN  mapVariationToRow2(obj, parentName)

\* rows of main() of src/etl-square-catalog.ts: the variations only
VariationRows2(objects) ==
    LET variations == SelectSeq(objects, IsVariation)
    IN  SelectSeq([i \in 1..Len(variations) |-> VariationRow2(objects, variations[i])], Kept)

CatalogRows(objects) ==
    LET variations == SelectSeq(objects, IsVariation)
        items == SelectSeq(objects, IsItem)
    IN  SelectSeq([i \in 1..Len(variations) |-> VariationRow(objects, variations[i])], Kept)
        \o [i \in 1..Len(items) |-> ItemRow(items[i])]

\* the batch of a main() that gives up the whole batch on the first null row
Batch_AllOrNothing(k, records) ==
    LET full == CASE k = "locations"  -> [i \in 1..Len(records) |-> mapLocationToRow(records[i])]
                  [] k = "categories" -> [i \in 1..Len(records) |-> mapCategoryToRow(records[i])]
                  [] k = "inventory"  -> [i \in 1..Len(records) |-> mapInventoryCountToRow(records[i])]
                  [] k = "catalog"    -> CatalogRows(records)
                  [] k = "variations" -> VariationRows2(records)
                  [] k = "payments"   -> records
    IN  IF \E i \in 1..Len(full) : full[i] = Dropped THEN <<>> ELSE full

\* The batch main() hands to the upsert.  The payments main() hands over the
\* raw payments: they are mapped inside the transaction.
Batch(k, records) ==
    CASE k = "locations"  ->
             KeepRows([i \in 1..Len(records) |-> mapLocationToRow(records[i])])
      [] k = "categories" ->
             KeepRows([i \in 1..Len(records) |-> mapCategoryToRow(records[i])])
      [] k = "inventory"  ->
             KeepRows([i \in 1..Len(records) |-> mapInventoryCountToRow(records[i])])
      [] k = "catalog"    -> CatalogRows(records)
      [] k = "variations" -> VariationRows2(records)
      [] k = "payments"   -> records

\* an upsert without the short cut for the empty batch
UpsertEntry_Always(batch) == "connect"

\* `if (rows.length === 0) return;` else `await pool.connect()`
UpsertEntry(batch) == IF Len(batch) = 0 THEN "done" ELSE "connect"

\* the mapper calls main() makes on the fetched records: none for payments,
\* which are mapped by the upsert
MapCalls(k, records) ==
    CASE k = "payments"   -> 0
      [] k = "variations" -> Len(SelectSeq(records, IsVariation))
      [] k = "catalog"    -> Len(SelectSeq(records, IsVariation)) + Len(SelectSeq(records, IsItem))
      [] OTHER            -> Len(records)

\* main() after the fetch returned: map, then call the upsert
MapRows(r) ==
    /\ pc[r] = "fetched" /\ kind[r] # "orders"
    /\ rows' = [rows EXCEPT ![r] = Batch(kind[r], all[r])]
    /\ pc' = [pc EXCEPT ![r] = UpsertEntry(Batch(kind[r], all[r]))]
    /\ nmap' = [nmap EXCEPT ![r] = @ + MapCalls(kind[r], all[r])]
    /\ UNCHANGED <<log, provVars, dbVars, fetchVars, orderVars, runVars, idx, err, code>>

\* the index with `orderToPaymentMap.set` on every payment: the last one stays
FirstSeen_LastWins(payments, map) ==
    LET IsFirst(j) == /\ Truthy(payments[j].order_id)
                      /\ \A i \in 1..(j - 1) : payments[i].order_id # payments[j].order_id
        firsts == SelectSeq([j \in 1..Len(payments) |-> j], IsFirst)
        LastFor(o) == CHOOSE j \in 1..Len(payments) :
                          /\ payments[j].order_id = o
                          /\ \A i \in (j + 1)..Len(payments) : payments[i].order_id # o
    IN  map \o [n \in 1..Len(firsts) |->
                  [order_id |-> payments[firsts[n]].order_id,
                   payment_id |-> payments[LastFor(payments[firsts[n]].order_id)].id]]

\* an index with one entry for every payment that has an order id
FirstSeen_PerPayment(payments, map) ==
    LET withOrder == SelectSeq(payments, LAMBDA p : Truthy(p.order_id))
    IN  map \o [n \in 1..Len(withOrder) |->
                  [order_id |-> withOrder[n].order_id, payment_id |-> withOrder[n].id]]

\* ------------------------------------------------------------ order sync
RECURSIVE FirstSeen(_, _)
\* orderToPayment after the loop over payments: first payment wins
FirstSeen(payments, map) ==
    IF payments = <<>> THEN map
    ELSE LET p == Head(payments)
             has == \E i \in 1..Len(map) : map[i].order_id = p.order_id
         IN  FirstSeen(Tail(payments),
                       IF Truthy(p.order_id) /\ ~has
                       THEN Append(map, [order_id |-> p.order_id, payment_id |-> p.id])
                       ELSE map)

\* loop over uniqueOrderIds: fetch the next order, or call the upsert
OrderLoop(map, i, batch) == IF i <= Len(map) THEN "order" ELSE UpsertEntry(batch)

\* main() of the order sync after the payments were fetched
OrdersIndex(r) ==
    /\ pc[r] = "fetched" /\ kind[r] = "orders"
    /\ o2p' = [o2p EXCEPT ![r] = FirstSeen(all[r], <<>>)]
    /\ oi' = [oi EXCEPT ![r] = 1]
    /\ pc' = [pc EXCEPT ![r] = OrderLoop(FirstSeen(all[r], <<>>), 1, <<>>)]
    /\ UNCHANGED <<log, provVars, nmap, dbVars, fetchVars, runVars, rows, idx, err, code>>

\* a request for the order at hand, with the status and the order answered
OrderRequest(r, status, order) ==
    [order |-> o2p[r][oi[r]].order_id, status |-> status, body |-> order]

\* rows of one fetched order
OrderRows(order, paymentId) ==
    IF order = Absent THEN <<>>
    ELSE IF order.line_items = Absent \/ Len(order.line_items.v) = 0 THEN <<>>
    ELSE SelectSeq([i \in 1..Len(order.line_items.v) |->
                      mapLineItemToRow(order, paymentId, order.line_items.v[i])], Kept)

\* the calls of mapLineItemToRow for one fetched order
LineCalls(order) ==
    IF order = Absent THEN 0
    ELSE IF order.line_items = Absent THEN 0 ELSE Len(order.line_items.v)

\* OrderGet with an order not found, or without line items, thrown as an error
OrderGet_EmptyIsError(r) ==
    /\ pc[r] = "order"
    /\ \E answer \in OrderAnswers(o2p[r][oi[r]].order_id) :
         LET e == o2p[r][oi[r]]
             got == rows[r] \o OrderRows(answer.order, e.payment_id)
             empty == \/ answer.order = Absent
                      \/ answer.order.line_items = Absent
                      \/ Len(answer.order.line_items.v) = 0
         IN
           /\ reqs' = [reqs EXCEPT ![r] = Append(@, OrderRequest(r, answer.status, answer.order))]
           /\ rows' = [rows EXCEPT ![r] = got]
           /\ nmap' = [nmap EXCEPT ![r] = @ + LineCalls(answer.order)]
           /\ oi' = [oi EXCEPT ![r] = IF empty THEN @ ELSE @ + 1]
           /\ err' = [err EXCEPT ![r] = IF empty THEN "order is empty" ELSE @]
           /\ pc' = [pc EXCEPT ![r] = IF empty THEN "threw"
                                      ELSE OrderLoop(o2p[r], oi[r] + 1, got)]
    /\ UNCHANGED <<log, provVars, dbVars, runVars, cursor, all, n429, o2p, idx, code>>

\* fetchOrder answered 200 or 404; main() maps the line items and goes on
OrderGet(r) ==
    /\ pc[r] = "order"
    /\ \E answer \in OrderAnswers(o2p[r][oi[r]].order_id) :
         LET e == o2p[r][oi[r]]
             got == rows[r] \o OrderRows(answer.order, e.payment_id)
         IN
           /\ reqs' = [reqs EXCEPT ![r] = Append(@, OrderRequest(r, answer.status, answer.order))]
           /\ rows' = [rows EXCEPT ![r] = got]
           /\ nmap' = [nmap EXCEPT ![r] = @ + LineCalls(answer.order)]
           /\ oi' = [oi EXCEPT ![r] = @ + 1]
           /\ pc' = [pc EXCEPT ![r] = OrderLoop(o2p[r], oi[r] + 1, got)]
    /\ UNCHANGED <<log, provVars, dbVars, runVars, cursor, all, n429, o2p, idx, err, code>>

\* fetchOrder answered 429: warn, start the 10 s timer
OrderGet429(r) ==
    /\ pc[r] = "order"
    /\ n429[r] < MaxRetry
    /\ reqs' = [reqs EXCEPT ![r] = Append(@, OrderRequest(r, 429, Absent))]
    /\ n429' = [n429 EXCEPT ![r] = @ + 1]
    /\ pc' = [pc EXCEPT ![r] = "obackoff"]
    /\ UNCHANGED <<log, provVars, nmap, dbVars, orderVars, runVars, cursor, all, rows, idx, err, code>>

\* the timer fires: `return fetchOrder(orderId)`
OrderRetry(r) ==
    /\ pc[r] = "obackoff"
    /\ pc' = [pc EXCEPT ![r] = "order"]
    /\ UNCHANGED <<log, provVars, nmap, dbVars, fetchVars, orderVars, runVars, rows, idx, err, code>>

\* the failure answered like a 404: `return null`, main() goes on
OrderGetFail_Skip(r) ==
    /\ pc[r] = "order"
    /\ reqs' = [reqs EXCEPT ![r] = Append(@, OrderRequest(r, 500, Absent))]
    /\ oi' = [oi EXCEPT ![r] = @ + 1]
    /\ pc' = [pc EXCEPT ![r] = OrderLoop(o2p[r], oi[r] + 1, rows[r])]
    /\ UNCHANGED <<log, provVars, nmap, dbVars, runVars, cursor, all, n429, o2p, rows, idx, err, code>>

\* fetchOrder answered another non-2xx status: throw
OrderGetFail(r) ==
    /\ pc[r] = "order"
    /\ reqs' = [reqs EXCEPT ![r] = Append(@, OrderRequest(r, 500, Absent))]
    /\ err' = [err EXCEPT ![r] = "order request failed: 500"]
    /\ pc' = [pc EXCEPT ![r] = "threw"]
    /\ UNCHANGED <<log, provVars, nmap, dbVars, orderVars, runVars, cursor, all, n429, rows, idx, code>>

\* ------------------------------------------------------------ the store
\* ON CONFLICT (...) of each INSERT
ConflictCols(k) ==
    CASE k = "locations"  -> {"tenant_id", "provider", "provider_account_id", "location_id"}
      [] k = "categories" -> {"tenant_id", "provider", "provider_account_id", "category_id"}
      [] k = "catalog"    -> {"tenant_id", "provider", "provider_account_id", "catalog_object_id"}
      [] k = "variations" -> {"tenant_id", "provider", "provider_account_id", "catalog_object_id"}
      [] k = "inventory"  -> {"tenant_id", "provider", "provider_account_id",
                              "catalog_object_id", "location_id", "state"}
      [] k = "payments"   -> {"tenant_id", "provider", "payment_id"}
      [] k = "orders"     -> {"tenant_id", "provider", "order_id", "line_item_uid"}

\* DO UPDATE SET col = EXCLUDED.col of each INSERT
SetCols(k) ==
    CASE k = "locations"  -> {"location_name", "address", "timezone", "status", "raw_payload"}
      [] k = "categories" -> {"category_name", "parent_category_id", "is_top_level",
                              "is_deleted", "raw_payload"}
      [] k = "catalog"    -> {"object_type", "item_name", "variation_name", "sku",
                              "category_id", "is_deleted", "raw_payload"}
      [] k = "variations" -> {"object_type", "item_name", "variation_name", "sku",
                              "is_deleted", "raw_payload"}
      [] k = "inventory"  -> {"catalog_object_type", "quantity", "calculated_at", "raw_payload"}
      [] k = "payments"   -> {"provider_account_id", "order_id", "location_id", "created_at",
                              "updated_at", "amount", "currency", "status", "customer_id",
                              "reference_id", "raw_payload"}
      [] k = "orders"     -> {"provider_account_id", "payment_id", "catalog_object_id",
                              "item_name", "sku", "quantity", "base_price_amount",
                              "total_money_amount", "currency", "location_id", "raw_payload"}

\* the tables whose INSERT ends with `updated_at = CURRENT_TIMESTAMP`; the
\* column is kept as `refreshed_at`, 0 being the column default of a new row
AutoStamped == {"locations", "categories", "inventory"}

\* the `values` array of one row: the tenant scope, then the row's fields
Values(c, row) ==
    [f \in DOMAIN c \cup DOMAIN row |-> IF f \in DOMAIN row THEN row[f] ELSE c[f]]

\* the row as mapped inside the transaction (payments) or before it
RowOf(k, item) == IF k = "payments" THEN mapPaymentToRow(item) ELSE item

\* two rows hit the same entry of the unique index: equal in every conflict
\* column, none of them NULL (NULLs are distinct in a unique index)
SameKey(k, a, b) == \A col \in ConflictCols(k) : a[col] = b[col] /\ a[col] # Null

Stamped(k, row, at) ==
    IF k \in AutoStamped
    THEN [f \in DOMAIN row \cup {"refreshed_at"} |-> IF f = "refreshed_at" THEN at ELSE row[f]]
    ELSE row

\* the columns of the table that the INSERT of kind k does not name: a new
\* row gets their default, taken as NULL
Defaulted(k) == IF k = "variations" THEN {"category_id"} ELSE {}

Inserted(k, vals) ==
    [f \in DOMAIN vals \cup Defaulted(k) |-> IF f \in DOMAIN vals THEN vals[f] ELSE Null]

\* INSERT ... ON CONFLICT ... DO NOTHING: the stored row is kept
Upsert_KeepsFirst(k, table, vals, now) ==
    IF \E i \in 1..Len(table) : SameKey(k, table[i], vals) THEN table
    ELSE Append(table, Stamped(k, Inserted(k, vals), 0))

\* INSERT ... ON CONFLICT ... DO UPDATE of one row on a table
Upsert(k, table, vals, now) ==
    LET hit == { i \in 1..Len(table) : SameKey(k, table[i], vals) }
    IN  IF hit = {} THEN Append(table, Stamped(k, Inserted(k, vals), 0))
        ELSE [i \in 1..Len(table) |->
                IF i \in hit
                THEN Stamped(k, [f \in DOMAIN table[i] |->
                                   IF f \in SetCols(k) THEN vals[f] ELSE table[i][f]], now)
                ELSE table[i]]

RECURSIVE UpsertAll(_, _, _, _)
UpsertAll(k, table, writes, now) ==
    IF writes = <<>> THEN table
    ELSE UpsertAll(k, Upsert(k, table, Head(writes), now), Tail(writes), now)

\* another open transaction holds the index entry this row would hit: the
\* INSERT waits until that transaction ends
Blocked(r, vals) ==
    \E q \in Runs \ {r} :
        /\ Table(kind[q]) = Table(kind[r])
        /\ \E i \in 1..Len(pend[q]) : SameKey(kind[r], pend[q][i], vals)

\* ---------------------------------------------------------- the upsert
\* one entry of log: a call on the pool ("connect") or on the connection
\* (a statement, or "release"), the batch position of an INSERT, and whether
\* the call succeeded
Ev(op, at, ok) == [op |-> op, at |-> at, ok |-> ok]

WriteFrame == <<provVars, fetchVars, orderVars, runVars, rows, code>>

\* `const client = await pool.connect()`
Connect(r) ==
    /\ pc[r] = "connect"
    /\ pc' = [pc EXCEPT ![r] = "begin"]
    /\ log' = [log EXCEPT ![r] = Append(@, Ev("connect", 0, TRUE))]
    /\ UNCHANGED <<WriteFrame, nmap, dbVars, idx, err>>

\* pool.connect() rejects: the upsert throws before its try block
ConnectFail(r) ==
    /\ pc[r] = "connect"
    /\ err' = [err EXCEPT ![r] = "connect failed"]
    /\ pc' = [pc EXCEPT ![r] = "threw"]
    /\ log' = [log EXCEPT ![r] = Append(@, Ev("connect", 0, FALSE))]
    /\ UNCHANGED <<WriteFrame, nmap, dbVars, idx>>

\* BEGIN is rejected: to the catch block
BeginFail(r) ==
    /\ pc[r] = "begin"
    /\ err' = [err EXCEPT ![r] = "begin failed"]
    /\ pc' = [pc EXCEPT ![r] = "rollback"]
    /\ log' = [log EXCEPT ![r] = Append(@, Ev("BEGIN", 0, FALSE))]
    /\ UNCHANGED <<WriteFrame, nmap, dbVars, idx>>

\* `await client.query("BEGIN")`
Begin(r) ==
    /\ pc[r] = "begin"
    /\ clock' = clock + 1
    /\ stamp' = [stamp EXCEPT ![r] = clock + 1]
    /\ idx' = [idx EXCEPT ![r] = 1]
    /\ pc' = [pc EXCEPT ![r] = "rows"]
    /\ log' = [log EXCEPT ![r] = Append(@, Ev("BEGIN", 0, TRUE))]
    /\ UNCHANGED <<WriteFrame, nmap, store, pend, commits, err>>

InLoop(r) == pc[r] = "rows" /\ idx[r] <= Len(rows[r])

\* the mapper calls of one pass of the loop: `mapPaymentToRow(p)` in
\* upsertPayments, none in the other upserts
LoopCalls(k) == IF k = "payments" THEN 1 ELSE 0

\* the payment without money skipped like a null row of the other kinds
PaymentMapThrow_Skip(r) ==
    /\ InLoop(r) /\ kind[r] = "payments"
    /\ PaymentThrows(rows[r][idx[r]])
    /\ idx' = [idx EXCEPT ![r] = @ + 1]
    /\ nmap' = [nmap EXCEPT ![r] = @ + LoopCalls(kind[r])]
    /\ UNCHANGED <<log, WriteFrame, dbVars, pc, err>>

\* mapPaymentToRow throws inside the loop: to the catch block
PaymentMapThrow(r) ==
    /\ InLoop(r) /\ kind[r] = "payments"
    /\ PaymentThrows(rows[r][idx[r]])
    /\ err' = [err EXCEPT ![r] = "payment has no money fields"]
    /\ pc' = [pc EXCEPT ![r] = "rollback"]
    /\ nmap' = [nmap EXCEPT ![r] = @ + LoopCalls(kind[r])]
    /\ UNCHANGED <<log, WriteFrame, dbVars, idx>>

Mappable(r) == kind[r] = "payments" => ~PaymentThrows(rows[r][idx[r]])

\* the row write outside a transaction: visible at once
WriteRow_Autocommit(r) ==
    /\ InLoop(r) /\ Mappable(r)
    /\ LET vals == Values(cfg[r], RowOf(kind[r], rows[r][idx[r]]))
       IN  store' = [store EXCEPT ![Table(kind[r])] = Upsert(kind[r], @, vals, stamp[r])]
    /\ idx' = [idx EXCEPT ![r] = @ + 1]
    /\ nmap' = [nmap EXCEPT ![r] = @ + LoopCalls(kind[r])]
    /\ log' = [log EXCEPT ![r] = Append(@, Ev("INSERT", idx[r], TRUE))]
    /\ UNCHANGED <<WriteFrame, pend, clock, stamp, commits, pc, err>>

\* one pass of the loop: `await client.query(text, values)` succeeds
WriteRow(r) ==
    /\ InLoop(r) /\ Mappable(r)
    /\ LET vals == Values(cfg[r], RowOf(kind[r], rows[r][idx[r]]))
       IN  /\ ~Blocked(r, vals)
           /\ pend' = [pend EXCEPT ![r] = Append(@, vals)]
    /\ idx' = [idx EXCEPT ![r] = @ + 1]
    /\ nmap' = [nmap EXCEPT ![r] = @ + LoopCalls(kind[r])]
    /\ log' = [log EXCEPT ![r] = Append(@, Ev("INSERT", idx[r], TRUE))]
    /\ UNCHANGED <<WriteFrame, store, clock, stamp, commits, pc, err>>

\* a loop that notes a rejected query and goes on with the next row
WriteRowFail_GoesOn(r) ==
    /\ InLoop(r) /\ Mappable(r)
    /\ idx' = [idx EXCEPT ![r] = @ + 1]
    /\ nmap' = [nmap EXCEPT ![r] = @ + LoopCalls(kind[r])]
    /\ log' = [log EXCEPT ![r] = Append(@, Ev("INSERT", idx[r], FALSE))]
    /\ UNCHANGED <<WriteFrame, dbVars, pc, err>>

\* one pass of the loop: the query is rejected: to the catch block
WriteRowFail(r) ==
    /\ InLoop(r) /\ Mappable(r)
    /\ err' = [err EXCEPT ![r] = "row write failed"]
    /\ pc' = [pc EXCEPT ![r] = "rollback"]
    /\ nmap' = [nmap EXCEPT ![r] = @ + LoopCalls(kind[r])]
    /\ log' = [log EXCEPT ![r] = Append(@, Ev("INSERT", idx[r], FALSE))]
    /\ UNCHANGED <<WriteFrame, dbVars, idx>>

AfterLoop(r) == pc[r] = "rows" /\ idx[r] > Len(rows[r])

\* `await client.query("COMMIT")` succeeds: the writes become visible
Commit(r) ==
    /\ AfterLoop(r)
    /\ store' = [store EXCEPT ![Table(kind[r])] = UpsertAll(kind[r], @, pend[r], stamp[r])]
    /\ pend' = [pend EXCEPT ![r] = <<>>]
    /\ commits' = Append(commits, r)
    /\ pc' = [pc EXCEPT ![r] = "release"]
    /\ log' = [log EXCEPT ![r] = Append(@, Ev("COMMIT", 0, TRUE))]
    /\ UNCHANGED <<WriteFrame, nmap, clock, stamp, idx, err>>

\* COMMIT is rejected: to the catch block
CommitFail(r) ==
    /\ AfterLoop(r)
    /\ err' = [err EXCEPT ![r] = "commit failed"]
    /\ pc' = [pc EXCEPT ![r] = "rollback"]
    /\ log' = [log EXCEPT ![r] = Append(@, Ev("COMMIT", 0, FALSE))]
    /\ UNCHANGED <<WriteFrame, nmap, dbVars, idx>>

\* the catch block ending the transaction with the writes made so far kept
Rollback_Applies(r) ==
    /\ pc[r] = "rollback"
    /\ store' = [store EXCEPT ![Table(kind[r])] = UpsertAll(kind[r], @, pend[r], stamp[r])]
    /\ pend' = [pend EXCEPT ![r] = <<>>]
    /\ pc' = [pc EXCEPT ![r] = "release"]
    /\ log' = [log EXCEPT ![r] = Append(@, Ev("ROLLBACK", 0, TRUE))]
    /\ UNCHANGED <<WriteFrame, nmap, clock, stamp, commits, idx, err>>

\* catch: `await client.query("ROLLBACK"); throw err;`
Rollback(r) ==
    /\ pc[r] = "rollback"
    /\ pend' = [pend EXCEPT ![r] = <<>>]
    /\ pc' = [pc EXCEPT ![r] = "release"]
    /\ log' = [log EXCEPT ![r] = Append(@, Ev("ROLLBACK", 0, TRUE))]
    /\ UNCHANGED <<WriteFrame, nmap, store, clock, stamp, commits, idx, err>>

\* a rejected ROLLBACK that leaves the upsert without passing the finally block
RollbackFail_NoRelease(r) ==
    /\ pc[r] = "rollback"
    /\ err' = [err EXCEPT ![r] = "rollback failed"]
    /\ pc' = [pc EXCEPT ![r] = "threw"]
    /\ log' = [log EXCEPT ![r] = Append(@, Ev("ROLLBACK", 0, FALSE))]
    /\ UNCHANGED <<WriteFrame, nmap, dbVars, idx>>

\* catch: ROLLBACK itself is rejected; its error replaces the first one and
\* the transaction stays open on the connection until the connection is closed
RollbackFail(r) ==
    /\ pc[r] = "rollback"
    /\ err' = [err EXCEPT ![r] = "rollback failed"]
    /\ pc' = [pc EXCEPT ![r] = "release"]
    /\ log' = [log EXCEPT ![r] = Append(@, Ev("ROLLBACK", 0, FALSE))]
    /\ UNCHANGED <<WriteFrame, nmap, dbVars, idx>>

\* finally: `client.release()`, then the upsert returns or rethrows
Release(r) ==
    /\ pc[r] = "release"
    /\ pc' = [pc EXCEPT ![r] = IF err[r] = Null THEN "done" ELSE "threw"]
    /\ log' = [log EXCEPT ![r] = Append(@, Ev("release", 0, TRUE))]
    /\ UNCHANGED <<WriteFrame, nmap, dbVars, idx, err>>

\* ------------------------------------------------------------ the process
\* main().then(closePool) / .catch(closePool, process.exit(1)): the process
\* ends, its memory and its connections (with any open transaction) are gone
Exit_AlwaysZero(r) ==
    /\ pc[r] \in {"done", "threw"}
    /\ code' = [code EXCEPT ![r] = 0]
    /\ pc' = [pc EXCEPT ![r] = "exited"]
    /\ pend' = [pend EXCEPT ![r] = <<>>]
    /\ cursor' = [cursor EXCEPT ![r] = 0]
    /\ all' = [all EXCEPT ![r] = <<>>]
    /\ reqs' = [reqs EXCEPT ![r] = <<>>]
    /\ n429' = [n429 EXCEPT ![r] = 0]
    /\ o2p' = [o2p EXCEPT ![r] = <<>>]
    /\ oi' = [oi EXCEPT ![r] = 0]
    /\ idx' = [idx EXCEPT ![r] = 0]
    /\ stamp' = [stamp EXCEPT ![r] = 0]
    /\ err' = [err EXCEPT ![r] = Null]
    /\ nmap' = [nmap EXCEPT ![r] = 0]
    /\ log' = [log EXCEPT ![r] = <<>>]
    /\ UNCHANGED <<provVars, runVars, store, clock, commits, rows>>

Exit(r) ==
    /\ pc[r] \in {"done", "threw"}
    /\ code' = [code EXCEPT ![r] = IF pc[r] = "done" THEN 0 ELSE 1]
    /\ pc' = [pc EXCEPT ![r] = "exited"]
    /\ pend' = [pend EXCEPT ![r] = <<>>]
    /\ cursor' = [cursor EXCEPT ![r] = 0]
    /\ all' = [all EXCEPT ![r] = <<>>]
    /\ reqs' = [reqs EXCEPT ![r] = <<>>]
    /\ n429' = [n429 EXCEPT ![r] = 0]
    /\ o2p' = [o2p EXCEPT ![r] = <<>>]
    /\ oi' = [oi EXCEPT ![r] = 0]
    /\ idx' = [idx EXCEPT ![r] = 0]
    /\ stamp' = [stamp EXCEPT ![r] = 0]
    /\ err' = [err EXCEPT ![r] = Null]
    /\ nmap' = [nmap EXCEPT ![r] = 0]
    /\ log' = [log EXCEPT ![r] = <<>>]
    /\ UNCHANGED <<provVars, runVars, store, clock, commits, rows>>

\* the entry point is started; runs follow one another
Start(r) ==
    /\ pc[r] = "idle"
    /\ \A q \in Runs : q < r => pc[q] = "exited"
    /\ pre' = [pre EXCEPT ![r] = store]
    /\ pc' = [pc EXCEPT ![r] = "fetch"]
    /\ UNCHANGED <<log, provVars, nmap, dbVars, fetchVars, orderVars, kind, cfg, rows, idx, err, code>>

\* ----------------------------------------------- the list fetch on its own
\* nothing requested, nothing written, the tables empty
Fresh ==
    /\ cursor = [r \in Runs |-> 0]
    /\ reqs = [r \in Runs |-> <<>>]
    /\ n429 = [r \in Runs |-> 0]
    /\ o2p = [r \in Runs |-> <<>>]
    /\ oi = [r \in Runs |-> 0]
    /\ idx = [r \in Runs |-> 0]
    /\ pend = [r \in Runs |-> <<>>]
    /\ stamp = [r \in Runs |-> 0]
    /\ err = [r \in Runs |-> Null]
    /\ code = [r \in Runs |-> -1]
    /\ store = [t \in Tables |-> <<>>]
    /\ pre = [r \in Runs |-> store]
    /\ clock = 0
    /\ commits = <<>>
    /\ log = [r \in Runs |-> <<>>]

\* and every run under the tenant scope S
Blank(S) == Fresh /\ cfg = [r \in Runs |-> S]

\* and nothing fetched or mapped yet
Idle(S) ==
    /\ Blank(S)
    /\ all = [r \in Runs |-> <<>>]
    /\ rows = [r \in Runs |-> <<>>]
    /\ nmap = [r \in Runs |-> 0]

Account(a) == [tenant_id |-> "T1", provider |-> "square", provider_account_id |-> a]

InitFetch ==
    /\ \E k \in PagedKinds : kind = [r \in Runs |-> k] /\ pages \in PageChains(Raw(k))
    /\ pc = [r \in Runs |-> IF r = 1 THEN "fetch" ELSE "off"]
    /\ Idle(Account("default-square"))

NextFetch ==
    \E r \in Runs :
        \/ ListPage200(r)
        \/ ListPage429(r)
        \/ BackoffDone(r)
        \/ ListPageFail(r)

SpecFetch == InitFetch /\ [][NextFetch]_vars

\* the fetch keeps running: an awaited response or timer eventually arrives
SpecFetchLive == SpecFetch /\ WF_vars(NextFetch)

\* ------------------------------------------------ one run of an entry point
\* the provider's records of one kind, served in full pages (the list fetch
\* on its own covers empty pages); fetchLocations reads a single response
Provider(k) ==
    /\ kind = [r \in Runs |-> k]
    /\ pages \in PageChains(Raw(k))
    /\ Len(pages) > 1 => \A i \in 1..Len(pages) : pages[i] # <<>>
    /\ k = "locations" => Len(pages) = 1

InitSync ==
    /\ \E k \in Kinds : Provider(k)
    /\ pc = [r \in Runs |-> IF r = 1 THEN "idle" ELSE "off"]
    /\ Idle(Account("default-square"))

NextSync ==
    \E r \in Runs :
        \/ Start(r)
        \/ ListPage200(r)
        \/ ListPage429(r)
        \/ BackoffDone(r)
        \/ ListPageFail(r)
        \/ LocationsGet200(r)
        \/ LocationsGet429(r)
        \/ LocationsRetry(r)
        \/ LocationsGetFail(r)
        \/ MapRows(r)
        \/ OrdersIndex(r)
        \/ OrderGet(r)
        \/ OrderGet429(r)
        \/ OrderRetry(r)
        \/ OrderGetFail(r)
        \/ Connect(r)
        \/ ConnectFail(r)
        \/ Begin(r)
        \/ BeginFail(r)
        \/ PaymentMapThrow(r)
        \/ WriteRow(r)
        \/ WriteRowFail(r)
        \/ Commit(r)
        \/ CommitFail(r)
        \/ Rollback(r)
        \/ RollbackFail(r)
        \/ Release(r)
        \/ Exit(r)

SpecSync == InitSync /\ [][NextSync]_vars

\* ------------------- two runs of an entry point in turn, the provider healthy
InitTwice ==
    /\ \E k \in Kinds : Provider(k)
    /\ pc = [r \in Runs |-> "idle"]
    /\ Idle(Account("default-square"))

NextTwice ==
    \E r \in Runs :
        \/ Start(r)
        \/ ListPage200(r)
        \/ LocationsGet200(r)
        \/ MapRows(r)
        \/ OrdersIndex(r)
        \/ OrderGet(r)
        \/ Connect(r)
        \/ ConnectFail(r)
        \/ Begin(r)
        \/ BeginFail(r)
        \/ PaymentMapThrow(r)
        \/ WriteRow(r)
        \/ WriteRowFail(r)
        \/ Commit(r)
        \/ CommitFail(r)
        \/ Rollback(r)
        \/ RollbackFail(r)
        \/ Release(r)
        \/ Exit(r)

SpecTwice == InitTwice /\ [][NextTwice]_vars

\* ----------------- two runs of an entry point writing at the same time
\* the kinds whose writers are run side by side
ConcKinds == {"locations", "catalog"}

\* the provider's records of two keys as run v fetched them: every field the
\* upsert sets differs between the two fetches
Edition(k, v) ==
    IF k = "locations"
    THEN { Loc("L1", IF v = 1 THEN "Main" ELSE "Main Hall",
               IF v = 1 THEN Absent ELSE Addr("1 Main St", "Springfield", Null, "12345")),
           Loc("L2", IF v = 1 THEN "Kiosk" ELSE "Kiosk East",
               IF v = 1 THEN Addr("2 Side St", Null, Null, Null) ELSE Absent) }
    ELSE { CatObj("I1", "ITEM", IF v = 1 THEN Null ELSE "true",
                  ItemData(IF v = 1 THEN "Latte" ELSE "Flat White",
                           IF v = 1 THEN "C1" ELSE "C2"), Absent),
           CatObj("V1", "ITEM_VARIATION", IF v = 1 THEN Null ELSE "true", Absent,
                  VarData(IF v = 1 THEN "Large" ELSE "Small",
                          IF v = 1 THEN "SKU1" ELSE "SKU2", "I1")) }

\* both runs have fetched and mapped, and call the upsert
InitConc ==
    /\ \E k \in ConcKinds :
          /\ kind = [r \in Runs |-> k]
          /\ all \in [Runs -> SeqsUpTo(Edition(k, 1) \cup Edition(k, 2), MaxRecs)]
          /\ \A r \in Runs : all[r] \in SeqsUpTo(Edition(k, r), MaxRecs) \ {<<>>}
          /\ rows = [r \in Runs |-> Batch(k, all[r])]
          /\ nmap = [r \in Runs |-> MapCalls(k, all[r])]
    /\ pages = <<all[2]>>
    /\ pc = [r \in Runs |-> "connect"]
    /\ Blank(Account("default-square"))

NextConc ==
    \E r \in Runs :
        \/ Connect(r)
        \/ ConnectFail(r)
        \/ Begin(r)
        \/ BeginFail(r)
        \/ WriteRow(r)
        \/ WriteRowFail(r)
        \/ Commit(r)
        \/ CommitFail(r)
        \/ Rollback(r)
        \/ RollbackFail(r)
        \/ Release(r)
        \/ Exit(r)

SpecConc == InitConc /\ [][NextConc]_vars

\* ------------------------------------------- two writers, tenant scopes
\* TENANT_ID, POS_PROVIDER, POS_PROVIDER_ACCOUNT_ID of the environment
Scopes ==
    { Account("default-square"), Account("second-square"),
      [tenant_id |-> "T2", provider |-> "square", provider_account_id |-> "default-square"] }

\* batches of one row, as the entry point of kind k hands them to its upsert
KeyBatches(k) ==
    IF k = "orders"
    THEN { OrderRows(o, "P1") : o \in { Order("O1", Items(<<LineA>>)),
                                        Order("O1", Items(<<LineB>>)),
                                        Order("O2", Items(<<LineA>>)) } }
    ELSE { b \in { Batch(k, <<rec>>) : rec \in Raw(k) } :
             Len(b) = 1 /\ (k = "payments" => ~PaymentThrows(b[1])) }

\* two runs of one kind, each under its own tenant scope, call the upsert with
\* one row
InitKeys ==
    /\ \E k \in Kinds :
          /\ kind = [r \in Runs |-> k]
          /\ rows \in [Runs -> KeyBatches(k)]
          /\ nmap = [r \in Runs |-> IF k = "payments" THEN 0 ELSE 1]
    /\ all = [r \in Runs |-> <<>>]
    /\ pages = <<<<>>>>
    /\ pc = [r \in Runs |-> "connect"]
    /\ Fresh
    /\ cfg \in [Runs -> Scopes]
    /\ cfg[1] = Account("default-square")

NextKeys ==
    \E r \in Runs :
        \/ Connect(r)
        \/ Begin(r)
        \/ WriteRow(r)
        \/ Commit(r)
        \/ Release(r)
        \/ Exit(r)

SpecKeys == InitKeys /\ [][NextKeys]_vars

\* ------------------------------------------------------------- properties
Statuses(r) == { reqs[r][k].status : k \in 1..Len(reqs[r]) }

\* C1: a list fetch that was never answered 429 and returned has issued
\* exactly one request per provider page, the first without a cursor and
\* request k+1 with the cursor page k returned, and returns the pages'
\* records concatenated in page order.
C1_PaginationComplete ==
    \A r \in Runs :
        (pc[r] = "fetched" /\ kind[r] \in PagedKinds /\ Statuses(r) = {200}) =>
            /\ Len(reqs[r]) = Len(pages)
            /\ \A k \in 1..Len(reqs[r]) : reqs[r][k].cursor = k - 1
            /\ all[r] = Concat(pages)

\* two pages, each with a record, fetched without a 429
C1_Witness ==
    /\ pc[1] = "fetched" /\ Statuses(1) = {200}
    /\ Len(pages) = 2 /\ pages[1] # <<>> /\ pages[2] # <<>>
    /\ Len(reqs[1]) = 2

\* C2: a 429 on any page, the first included, is followed by the same request
\* again (same cursor), and a fetch that returns has seen every page exactly
\* once: it returns the concatenation of all pages.
C2_RetrySamePage ==
    \A r \in Runs :
        /\ \A k \in 1..Len(reqs[r]) :
              reqs[r][k].status = 429 =>
                 /\ pc[r] # "fetched" \/ k < Len(reqs[r])
                 /\ k < Len(reqs[r]) => reqs[r][k + 1].cursor = reqs[r][k].cursor
        /\ (pc[r] = "fetched" /\ kind[r] \in PagedKinds) => all[r] = Concat(pages)

\* the run's process has ended and no later run has started
LastEnded(r) == pc[r] = "exited" /\ \A q \in Runs : q > r => pc[q] \in {"idle", "off"}

\* C3: for every entity kind, when a row write or the COMMIT of a batch
\* fails, the upsert goes to its catch block, rolls back and rethrows: the
\* run ends in failure and the store is what it was before the run, with
\* none of the batch's rows, not even those written before the failing one.
C3_RollbackAtomic ==
    \A r \in Runs :
        /\ err[r] \in {"row write failed", "commit failed"} =>
              /\ pc[r] \in {"rollback", "release", "threw"}
              /\ pc[r] \in {"release", "threw"} => pend[r] = <<>>
              /\ store = pre[r]
        /\ (LastEnded(r) /\ code[r] = 1) => store = pre[r]

C3_Witness ==
    /\ pc[2] = "threw" /\ err[2] = "row write failed"
    /\ idx[2] >= 2
    /\ pre[2][Table(kind[2])] # <<>>
    /\ store = pre[2]

Unstamped(row) == [f \in DOMAIN row \ {"refreshed_at"} |-> row[f]]

Content(table) == [i \in 1..Len(table) |-> Unstamped(table[i])]

\* C4: for every entity kind, a second successful run over the same batch
\* leaves the store as the first run left it, but for the automatic
\* timestamp: one stored row per conflict key, no duplicate.
C4_IdempotentUpsert ==
    (code[1] = 0 /\ pc[2] = "done" /\ rows[1] # <<>> /\ rows[2] = rows[1]) =>
        \A t \in Tables : Content(store[t]) = Content(pre[2][t])

\* `throw new Error(... ${res.status}: ${text})` of the four fetches
FetchErrors ==
    {"list request failed: 500", "locations request failed: 500", "order request failed: 500"}

\* C5: a list request or a single-order request answered with a failure
\* status other than 429 (and 404 for an order) is the last request of the
\* run: the fetch throws, the error names the status, the run is over with
\* no transaction begun and nothing pending, and the store is as before the
\* run, also when earlier orders had been fetched and mapped.
C5_FatalStatusNotRetried ==
    \A r \in Runs : \A k \in 1..Len(reqs[r]) :
        reqs[r][k].status = 500 =>
            /\ k = Len(reqs[r])
            /\ pc[r] = "threw"
            /\ err[r] \in FetchErrors
            /\ stamp[r] = 0 /\ pend[r] = <<>>
            /\ store = pre[r]

C5_Witness ==
    /\ kind[1] = "orders" /\ pc[1] = "threw"
    /\ Len(reqs[1]) >= 3
    /\ reqs[1][Len(reqs[1])].status = 500
    /\ Len(rows[1]) > 0
    /\ store = pre[1]

\* errors of the write path
WriteErrors ==
    {"connect failed", "begin failed", "row write failed", "commit failed", "rollback failed"}

\* the validation named for each kind, on one fetched record (for the order
\* sync: on one line item)
FailsValidation(k, rec) ==
    CASE k = "locations"  -> ~Truthy(rec.id) \/ ~Truthy(rec.name)
      [] k = "categories" -> ~Truthy(rec.id)
      [] k = "catalog"    -> ~Truthy(rec.id)
      [] k = "variations" -> ~Truthy(rec.id)
      [] k = "inventory"  -> \/ ~Truthy(rec.catalog_object_id)
                             \/ ~ParseFloat(QuantityStr(rec.quantity)).finite
      [] k = "payments"   -> rec.total_money = Absent /\ rec.amount_money = Absent
      [] k = "orders"     -> \/ ~Truthy(rec.uid)
                             \/ ~ParseFloat(QuantityStr(rec.quantity)).finite
                             \/ ParseFloat(QuantityStr(rec.quantity)).val <= 0

\* the records a mapper validates: every kind but Payment, and of the
\* catalog the ITEM_VARIATION objects
Validated(k, rec) ==
    k # "payments" /\ (k \in {"catalog", "variations"} => IsVariation(rec))

\* the records of a fetch that pass; strict: validation as named for every
\* kind, else only where a mapper validates
RECURSIVE Passing(_, _, _)
Passing(k, records, strict) ==
    IF records = <<>> THEN <<>>
    ELSE LET rec == Head(records)
             bad == FailsValidation(k, rec) /\ (strict \/ Validated(k, rec))
         IN  (IF bad THEN <<>> ELSE <<rec>>) \o Passing(k, Tail(records), strict)

\* the row of one passing record, as the batch holds it
RowFor(k, records, rec) ==
    CASE k = "locations"  -> mapLocationToRow(rec)
      [] k = "categories" -> mapCategoryToRow(rec)
      [] k = "inventory"  -> mapInventoryCountToRow(rec)
      [] k = "catalog"    -> IF IsVariation(rec) THEN VariationRow(records, rec) ELSE ItemRow(rec)
      [] k = "variations" -> VariationRow2(records, rec)
      [] k = "payments"   -> rec

\* the order sync: the rows of the passing line items of the orders answered
RECURSIVE PassingLines(_, _, _)
PassingLines(requests, map, strict) ==
    IF requests = <<>> THEN <<>>
    ELSE LET q == Head(requests)
             lines == IF "body" \notin DOMAIN q THEN <<>>
                      ELSE IF q.body = Absent THEN <<>>
                      ELSE IF q.body.line_items = Absent THEN <<>>
                      ELSE Passing("orders", q.body.line_items.v, strict)
             e == CHOOSE x \in { map[i] : i \in 1..Len(map) } :
                      "body" \in DOMAIN q => x.order_id = q.order
         IN  [i \in 1..Len(lines) |-> mapLineItemToRow(q.body, e.payment_id, lines[i])]
             \o PassingLines(Tail(requests), map, strict)

\* the batch made of the passing records only
PassingBatch(r, strict) ==
    IF kind[r] = "orders" THEN PassingLines(reqs[r], o2p[r], strict)
    ELSE LET recs == IF kind[r] = "catalog"
                     THEN SelectSeq(all[r], IsVariation) \o SelectSeq(all[r], IsItem)
                     ELSE IF kind[r] = "variations" THEN SelectSeq(all[r], IsVariation)
                     ELSE all[r]
             kept == Passing(kind[r], recs, strict)
         IN  [i \in 1..Len(kept) |-> RowFor(kind[r], all[r], kept[i])]

\* the batch as written: the tenant scope on every row, payments mapped
Written(r, batch) == [i \in 1..Len(batch) |-> Values(cfg[r], RowOf(kind[r], batch[i]))]

\* main() has called the upsert
Handed(r) == pc[r] \in {"connect", "begin", "rows", "rollback", "release", "done"}

\* failing records are left out of the batch, no run fails on one, and a
\* run that ends well has committed the rows of all passing records
DropsInvalid(r, strict) ==
    /\ Handed(r) => rows[r] = PassingBatch(r, strict)
    /\ err[r] \in {Null} \cup FetchErrors \cup WriteErrors
    /\ pc[r] = "done" =>
          store[Table(kind[r])] = UpsertAll(kind[r], pre[r][Table(kind[r])],
                                     Written(r, PassingBatch(r, strict)), stamp[r])

C7_PaymentWithoutMoneyFatal ==
    \A r \in Runs :
        (kind[r] = "payments" /\ \E i \in 1..Len(rows[r]) : PaymentThrows(rows[r][i])) =>
            /\ pc[r] # "done" /\ code[r] # 0
            /\ store = pre[r]
            /\ (pc[r] = "rows" /\ idx[r] <= Len(rows[r])) =>
                   \A i \in 1..(idx[r] - 1) : ~PaymentThrows(rows[r][i])

C7_Witness ==
    /\ kind[1] = "payments" /\ pc[1] = "threw"
    /\ err[1] = "payment has no money fields"
    /\ idx[1] = 2 /\ PaymentThrows(rows[1][2])
    /\ store = pre[1] /\ store["payments"] = <<>>

\* C9: in the order sync every row of an order carries the id of the first
\* payment, in fetch order, that references the order; the rows stored at
\* the end of the run too.
C9_FirstPaymentWins ==
    \A r \in Runs :
        (kind[r] = "orders" /\ pc[r] \notin {"exited", "off"}) =>
            LET First(o) == CHOOSE j \in 1..Len(all[r]) :
                                /\ all[r][j].order_id = o
                                /\ \A i \in 1..(j - 1) : all[r][i].order_id # o
                Refers(o) == \E j \in 1..Len(all[r]) : all[r][j].order_id = o
                Right(row) == /\ Refers(row.order_id)
                              /\ row.payment_id = all[r][First(row.order_id)].id
            IN  /\ \A i \in 1..Len(rows[r]) : Right(rows[r][i])
                /\ pc[r] = "done" =>
                      \A i \in 1..Len(store["orders"]) : Right(store["orders"][i])

C9_Witness ==
    /\ kind[1] = "orders" /\ pc[1] = "done"
    /\ Len(all[1]) = 2
    /\ all[1][1].order_id = all[1][2].order_id /\ all[1][1].id # all[1][2].id
    /\ Len(store["orders"]) = 2
    /\ \A i \in 1..2 : store["orders"][i].payment_id = all[1][1].id

\* an order request answered 404, or 200 with no order or no line items
EmptyAnswer(q) ==
    /\ "body" \in DOMAIN q
    /\ q.status \in {200, 404}
    /\ \/ q.body = Absent
       \/ q.body.line_items = Absent
       \/ Len(q.body.line_items.v) = 0

\* C10: in the order sync an order answered 404, or without an order
\* object, or without line items, gives no row and no error: the loop moves
\* to the next order id, every order id is requested before the write, and
\* a run that ends well has stored a row for each passing line item of the
\* other orders.
C10_EmptyOrderSkipped ==
    \A r \in Runs :
        (kind[r] = "orders" /\ pc[r] \notin {"exited", "off"}) =>
            /\ \A k \in 1..Len(reqs[r]) :
                  EmptyAnswer(reqs[r][k]) =>
                      /\ \A i \in 1..Len(rows[r]) : rows[r][i].order_id # reqs[r][k].order
                      /\ k = Len(reqs[r]) =>
                            /\ err[r] \in {Null} \cup WriteErrors
                            /\ o2p[r][oi[r] - 1].order_id = reqs[r][k].order
                            /\ IF oi[r] <= Len(o2p[r]) THEN pc[r] = "order"
                               ELSE Handed(r) \/ pc[r] = "threw"
            /\ Handed(r) =>
                  \A n \in 1..Len(o2p[r]) : \E k \in 1..Len(reqs[r]) :
                      /\ "body" \in DOMAIN reqs[r][k]
                      /\ reqs[r][k].order = o2p[r][n].order_id
                      /\ reqs[r][k].status \in {200, 404}
            /\ pc[r] = "done" =>
                  \A k \in 1..Len(reqs[r]) :
                      ("body" \in DOMAIN reqs[r][k] /\ ~EmptyAnswer(reqs[r][k])
                         /\ reqs[r][k].status = 200) =>
                          LET lines == Passing("orders", reqs[r][k].body.line_items.v, TRUE)
                          IN  \A l \in 1..Len(lines) : \E i \in 1..Len(store["orders"]) :
                                  /\ store["orders"][i].order_id = reqs[r][k].order
                                  /\ store["orders"][i].line_item_uid = lines[l].uid

C10_Witness ==
    /\ kind[1] = "orders" /\ pc[1] = "done"
    /\ Len(reqs[1]) = 3
    /\ reqs[1][2].status = 404
    /\ reqs[1][3].status = 200
    /\ Len(store["orders"]) > 0
    /\ \A i \in 1..Len(store["orders"]) : store["orders"][i].order_id = reqs[1][3].order

\* the rows run r writes on the key of stored row s, in batch order
WritesOn(r, s) == SelectSeq(Written(r, rows[r]), LAMBDA v : SameKey(kind[r], v, s))

\* the runs that committed a write on the key of s, in commit order
Committers(s) == SelectSeq(commits, LAMBDA r : WritesOn(r, s) # <<>>)

\* C8: with two runs upserting at the same time, every stored row is, field
\* for field, the row one run wrote on that key, and that run is the last
\* one that committed a write on the key; a key has one stored row, and no
\* key of overlapping multi-row batches mixes fields of the two batches.
C8_NoTornRow ==
    LET table == store[Table(kind[1])]
    IN  /\ \A i \in 1..Len(table) :
              LET cs == Committers(table[i])
              IN  /\ cs # <<>>
                  /\ LET ws == WritesOn(cs[Len(cs)], table[i])
                     IN  Unstamped(table[i]) = ws[Len(ws)]
        /\ \A i, j \in 1..Len(table) : SameKey(kind[1], table[i], table[j]) => i = j
        /\ \A n \in 1..Len(commits) :
              \A j \in 1..Len(rows[commits[n]]) :
                  \E i \in 1..Len(table) :
                      SameKey(kind[1], table[i], Written(commits[n], rows[commits[n]])[j])

C8_Witness ==
    /\ commits = <<2, 1>>
    /\ pc[1] = "done" /\ pc[2] \in {"done", "exited"}
    /\ Len(rows[1]) = 2 /\ Len(rows[2]) = 2
    /\ Len(store[Table(kind[1])]) = 2
    /\ \A i \in 1..2 : WritesOn(2, store[Table(kind[1])][i]) # <<>>
    /\ \A i \in 1..2 : \E j \in 1..2 :
          Unstamped(store[Table(kind[1])][i]) = Written(1, rows[1])[j]

\* the requests of run r for one order id
OrderRequests(r, id) ==
    SelectSeq(reqs[r], LAMBDA q : "body" \in DOMAIN q /\ q.order = id)

\* C11: fetchOrder retries once after a 429: whatever the provider answers,
\* at most two requests are issued for one order id.
C11_OrderRetryOnce ==
    \A r \in Runs : \A id \in OrderIds : Len(OrderRequests(r, id)) <= 2

\* the two catalog entry points
CatalogKinds == {"catalog", "variations"}

\* the positions of the ITEM records that a variation names as its parent
Parents(objects, variation) ==
    { i \in 1..Len(objects) :
        /\ IsItem(objects[i])
        /\ Truthy(objects[i].id)
        /\ objects[i].id = Opt(variation.item_variation_data, "item_id") }

\* every variation row of the batch of run r carries the name and the
\* category of its parent ITEM, wherever the parent stands in the fetched list
InheritsFromParent(r) ==
    \A i \in 1..Len(rows[r]) :
        LET row == rows[r][i]
        IN  IsVariation(row.raw_payload) =>
              \A j \in Parents(all[r], row.raw_payload) :
                  LET item == all[r][j].item_data
                  IN  /\ Truthy(Opt(item, "name")) => row.item_name = item.name
                      /\ Truthy(Opt(item, "category_id")) =>
                            /\ "category_id" \in DOMAIN row
                            /\ row.category_id = item.category_id

\* C12: in a catalog sync a variation row takes item_name and category_id
\* from the ITEM whose id is the variation's parent item id, whether the ITEM
\* was fetched before the variation, after it, or on another page.
C12_InheritsFromParent ==
    \A r \in Runs : (kind[r] \in CatalogKinds /\ Handed(r)) => InheritsFromParent(r)

\* how many entries of a sequence equal x
Occurrences(seq, x) == Cardinality({ i \in 1..Len(seq) : seq[i] = x })

\* the batch of run r has one row for every fetched ITEM and one for every
\* fetched ITEM_VARIATION with an id, and the ITEM rows carry no variation
\* name and no sku
EmitsItemsAndVariations(r) ==
    /\ \A i \in 1..Len(all[r]) :
          LET obj == all[r][i]
          IN  (IsItem(obj) \/ (IsVariation(obj) /\ Truthy(obj.id))) =>
                 Occurrences([j \in 1..Len(rows[r]) |-> rows[r][j].raw_payload], obj)
                    = Occurrences(all[r], obj)
    /\ \A j \in 1..Len(rows[r]) :
          IsItem(rows[r][j].raw_payload) =>
             rows[r][j].variation_name = Null /\ rows[r][j].sku = Null

\* C13: a catalog sync hands one batch to the upsert that holds one row for
\* every fetched ITEM record and one row for every fetched ITEM_VARIATION
\* record with an id; ITEM rows have no variation_name and no sku.
C13_ItemAndVariationRows ==
    \A r \in Runs : (kind[r] \in CatalogKinds /\ Handed(r)) => EmitsItemsAndVariations(r)

\* the natural key of each kind as the data model states it
StatedKey(k) ==
    CASE k = "locations"  -> {"tenant_id", "provider", "provider_account_id", "location_id"}
      [] k = "categories" -> {"tenant_id", "provider", "provider_account_id", "category_id"}
      [] k = "catalog"    -> {"tenant_id", "provider", "provider_account_id", "catalog_object_id"}
      [] k = "variations" -> {"tenant_id", "provider", "provider_account_id", "catalog_object_id"}
      [] k = "inventory"  -> {"tenant_id", "provider", "provider_account_id",
                              "catalog_object_id", "location_id", "state"}
      [] k = "payments"   -> {"tenant_id", "provider", "payment_id"}
      [] k = "orders"     -> {"tenant_id", "provider", "provider_account_id",
                              "order_id", "line_item_uid"}

\* the one row run r wrote, as its INSERT received it
OnlyWrite(r) == Values(cfg[r], RowOf(kind[r], rows[r][1]))

\* C14: conflict detection uses the stated natural key: the tenant scope and
\* the entity id (for an inventory snapshot the catalog object, location and
\* state), plus the line item uid for an order line, and tenant, provider and
\* payment id for a payment.  Two committed writes of one kind that agree on
\* that key, every component of it present, end as one stored row, two that
\* differ in a component of it end as two stored rows.
C14_StatedKeys ==
    (/\ \A r \in Runs : pc[r] = "exited" /\ code[r] = 0 /\ Len(rows[r]) = 1
     /\ kind[1] = kind[2]
     /\ Len(commits) = 2
     /\ \A r \in Runs : \A c \in StatedKey(kind[r]) : OnlyWrite(r)[c] # Null)
    => LET agree == \A c \in StatedKey(kind[1]) : OnlyWrite(1)[c] = OnlyWrite(2)[c]
       IN  Len(store[Table(kind[1])]) = IF agree THEN 1 ELSE 2

\* run r is inside its upsert, past the check of the batch length
InUpsert(r) == pc[r] \in {"connect", "begin", "rows", "rollback", "release"}

\* C15: for every kind an empty batch is a no-op: the upsert returns without
\* a connection, without BEGIN, COMMIT or ROLLBACK and without an error, and
\* the store is as the run found it.
C15_EmptyBatchNoOp ==
    \A r \in Runs :
        (Handed(r) /\ rows[r] = <<>>) =>
            /\ ~InUpsert(r)
            /\ err[r] = Null
            /\ stamp[r] = 0
            /\ pend[r] = <<>>
            /\ \A n \in 1..Len(commits) : commits[n] # r
            /\ store = pre[r]

C15_Witness ==
    /\ pc[1] = "done" /\ rows[1] = <<>>
    /\ Len(all[1]) > 0

\* an error raised in run r is on its way to the entry point: in the catch
\* block of the upsert, in its finally block, or thrown out of main()
Propagating(r) == pc[r] \in {"rollback", "release", "threw"}

\* the process of run r ends in this step
Ends(r) == pc[r] # "exited" /\ pc'[r] = "exited"

\* C16: an error raised while fetching, mapping or writing is not swallowed:
\* from the moment it is raised the run does nothing but unwind to the entry
\* point, which closes the pool and ends the process with a non-zero exit
\* code; a run without an error ends with exit code zero.
C16_ErrorsReachExit ==
    /\ [](\A r \in Runs : err[r] # Null => Propagating(r))
    /\ [][\A r \in Runs :
             Ends(r) => code'[r] = (IF err[r] = Null THEN 0 ELSE 1)]_vars

C16_Witness ==
    /\ pc[1] = "exited" /\ code[1] = 1
    /\ kind[1] = "orders"

\* the natural key of a stored row of table t, as the data model states it
NaturalKey(t, row) == [c \in StatedKey(t) |-> row[c]]

\* the natural keys stored in table t
StoredKeys(table, t) == { NaturalKey(t, table[i]) : i \in 1..Len(table) }

\* C17: the pipeline never deletes: no step of any run removes a stored row
\* or makes a committed natural key disappear from its table; a run only
\* adds keys or overwrites the other fields of existing ones.
C17_NeverDeletes ==
    [][\A t \in Tables :
          /\ Len(store'[t]) >= Len(store[t])
          /\ StoredKeys(store[t], t) \subseteq StoredKeys(store'[t], t)]_vars

\* the address parts of a provider location that are present and not empty,
\* in the order line 1, locality, administrative district, postal code
PresentParts(addr) ==
    IF addr = Absent THEN <<>>
    ELSE LET order == <<"address_line_1", "locality",
                        "administrative_district_level_1", "postal_code">>
         IN  SelectSeq([i \in 1..4 |-> addr[order[i]]], LAMBDA part : part \notin {Null, ""})

\* the address text of a location row is its present parts with ", " between
\* them, and is absent when there is no such part
AddressJoined(row) ==
    LET parts == PresentParts(row.raw_payload.address)
    IN  IF parts = <<>> THEN row.address = Absent
        ELSE /\ row.address # Absent
             /\ Len(row.address.v) = 2 * Len(parts) - 1
             /\ \A i \in 1..Len(row.address.v) :
                   row.address.v[i] = IF i % 2 = 1 THEN parts[(i + 1) \div 2] ELSE ", "

\* C18: the location mapper joins the present, non-empty address parts in the
\* order line 1, locality, administrative district, postal code with ", ";
\* a location without such a part gets an absent address, never an empty text.
C18_AddressJoined ==
    \A r \in Runs :
        (kind[r] = "locations" /\ Handed(r)) =>
            \A i \in 1..Len(rows[r]) :
                /\ AddressJoined(rows[r][i])
                /\ rows[r][i].address \notin {Txt(<<>>), Txt(<<"">>)}

C18_Witness ==
    /\ kind[1] = "locations" /\ pc[1] = "done" /\ Len(rows[1]) = 2
    /\ rows[1][1].address = Txt(<<"1 Main St", ", ", "Springfield", ", ", "12345">>)
    /\ rows[1][2].address = Txt(<<"Shelbyville", ", ", "IL">>)

\* run r issues a provider request in this step
Requests(r) == Len(reqs'[r]) > Len(reqs[r])

\* run r hands a record to a mapper in this step
Maps(r) == nmap'[r] > nmap[r]

\* BEGIN of run r has been issued
Began(r) == stamp[r] # 0

IsOrderRequest(q) == "body" \in DOMAIN q

\* the requests of run r for one order id that were not answered 429
Answered(r, id) == SelectSeq(OrderRequests(r, id), LAMBDA q : q.status # 429)

\* the order ids the fetched payments of run r refer to
Referenced(r) ==
    { all[r][i].order_id : i \in { j \in 1..Len(all[r]) : Truthy(all[r][j].order_id) } }

\* C20: in an order sync each order id that a fetched payment refers to is
\* requested once, 429 retries aside, however many payments refer to it; no
\* other order is requested (a payment without order id causes no request);
\* and every order request comes after the last request of the payment list.
C20_EachOrderOnce ==
    \A r \in Runs :
        kind[r] = "orders" =>
            /\ \A id \in OrderIds : Len(Answered(r, id)) <= 1
            /\ Handed(r) => \A id \in Referenced(r) : Len(Answered(r, id)) = 1
            /\ \A i \in 1..Len(reqs[r]) :
                  IsOrderRequest(reqs[r][i]) =>
                      /\ reqs[r][i].order \in Referenced(r)
                      /\ pc[r] \notin {"fetch", "backoff", "fetched"}
                      /\ \A j \in (i + 1)..Len(reqs[r]) : IsOrderRequest(reqs[r][j])

C20_Witness ==
    /\ kind[1] = "orders" /\ pc[1] = "done"
    /\ Len(all[1]) = 2
    /\ all[1][1].order_id = "O1" /\ all[1][2].order_id = "O1"
    /\ all[1][1].id # all[1][2].id
    /\ Len(OrderRequests(1, "O1")) = 1
    /\ Len(reqs[1]) = 3

\* the entity id of an entry of the batch of kind k; the payment batch holds
\* the fetched payments, whose id becomes payment_id
IdOf(k, item) ==
    CASE k = "locations"  -> item.location_id
      [] k = "categories" -> item.category_id
      [] k = "catalog"    -> item.catalog_object_id
      [] k = "variations" -> item.catalog_object_id
      [] k = "inventory"  -> item.catalog_object_id
      [] k = "payments"   -> item.id
      [] k = "orders"     -> item.line_item_uid

\* C21: no partially-defined row reaches the writer: for every kind, catalog
\* ITEM rows and payment rows included, every row handed to the upsert has a
\* present, non-empty entity id.
C21_RowsHaveIds ==
    \A r \in Runs :
        Handed(r) => \A i \in 1..Len(rows[r]) : Truthy(IdOf(kind[r], rows[r][i]))

\* the values of one field of the fetched parent ITEMs of a variation that
\* have that field
ParentValues(objects, variation, field) ==
    { objects[j].item_data[field] :
        j \in { i \in Parents(objects, variation) :
                  Truthy(Opt(objects[i].item_data, field)) } }

\* the item name and the category of a variation row resolve as stated
ResolvesName(objects, row) ==
    LET variation == row.raw_payload
        names == ParentValues(objects, variation, "name")
        categories == ParentValues(objects, variation, "category_id")
    IN  /\ names # {} => row.item_name \in names
        /\ names = {} => row.item_name = Opt(variation.item_variation_data, "name")
        /\ categories = {} =>
              ("category_id" \in DOMAIN row => row.category_id = Null)

\* C22: a variation row's item_name is the name of the fetched ITEM that the
\* variation names as its parent, if there is one with a name; otherwise the
\* variation's own name; absent when there is neither.  Its category_id is
\* absent whenever no parent category was resolved.
C22_NameResolution ==
    \A r \in Runs :
        (kind[r] \in CatalogKinds /\ Handed(r)) =>
            \A i \in 1..Len(rows[r]) :
                IsVariation(rows[r][i].raw_payload) => ResolvesName(all[r], rows[r][i])

C22_Witness ==
    /\ kind[1] = "catalog" /\ pc[1] = "done" /\ Len(all[1]) = 2 /\ Len(rows[1]) = 2
    /\ \A i \in 1..2 : IsVariation(all[1][i])
    /\ rows[1][1].item_name = "Large" /\ rows[1][1].category_id = Null
    /\ rows[1][2].item_name = Null /\ rows[1][2].variation_name = Null

\* the statements run r sent on its connection, in order
Statements(r) == SelectSeq(log[r], LAMBDA e : e.op \notin {"connect", "release"})

\* how often run r made the call op
Calls(r, op) == Len(SelectSeq(log[r], LAMBDA e : e.op = op))

\* the upsert of run r was called with a non-empty batch and has returned or
\* thrown
UpsertOver(r) == log[r] # <<>> /\ pc[r] \in {"done", "threw"}

\* the statements so far are the beginning of BEGIN, the INSERTs in batch
\* order, then COMMIT or ROLLBACK: nothing before BEGIN, nothing but ROLLBACK
\* after a rejected statement, nothing after ROLLBACK or an accepted COMMIT,
\* COMMIT only after the last row
Bracketed(r) ==
    LET st == Statements(r)
        inserts == SelectSeq(st, LAMBDA e : e.op = "INSERT")
    IN  /\ st # <<>> => st[1].op = "BEGIN"
        /\ Calls(r, "BEGIN") <= 1
        /\ \A i \in 1..Len(inserts) : inserts[i].at = i /\ i <= Len(rows[r])
        /\ \A i \in 1..Len(st) : \A j \in (i + 1)..Len(st) :
              /\ ~st[i].ok => st[j].op = "ROLLBACK"
              /\ st[i].op # "ROLLBACK"
              /\ ~(st[i].op = "COMMIT" /\ st[i].ok)
              /\ st[j].op # "BEGIN"
        /\ \A i \in 1..Len(st) :
              st[i].op = "COMMIT" => Len(inserts) = Len(rows[r])

\* C23 as stated: a run with a non-empty batch uses one connection and one
\* transaction: one BEGIN, the row writes in batch order, then exactly one of
\* COMMIT and ROLLBACK; no write outside the bracket or after a failed one.
C23_OneBeginOneEnd ==
    \A r \in Runs :
        /\ Bracketed(r)
        /\ UpsertOver(r) =>
              /\ Calls(r, "connect") = 1
              /\ Calls(r, "BEGIN") = 1
              /\ Calls(r, "COMMIT") + Calls(r, "ROLLBACK") = 1

\* C23 amended: a run with a non-empty batch asks the pool for one
\* connection.  Without a connection it sends no statement.  With one it
\* sends exactly one BEGIN, then the row writes in batch order up to the first
\* failure, then COMMIT if every write succeeded; it sends exactly one
\* ROLLBACK if BEGIN, a mapping, a row write or the COMMIT failed, so a
\* failed COMMIT is followed by a ROLLBACK, and none otherwise.
C23_OneTransaction ==
    \A r \in Runs :
        /\ Bracketed(r)
        /\ UpsertOver(r) =>
              LET st == Statements(r)
                  failed == \E i \in 1..Len(st) : ~st[i].ok /\ st[i].op # "ROLLBACK"
                  thrown == err[r] = "payment has no money fields"
              IN  /\ Calls(r, "connect") = 1
                  /\ ~log[r][1].ok => st = <<>>
                  /\ log[r][1].ok =>
                        /\ Calls(r, "BEGIN") = 1
                        /\ Calls(r, "ROLLBACK") = IF failed \/ thrown \/ pc[r] = "threw" THEN 1 ELSE 0
                        /\ Calls(r, "COMMIT") <= 1
                        /\ pc[r] = "done" <=> (st[Len(st)].op = "COMMIT" /\ st[Len(st)].ok)

C23_Witness ==
    /\ kind[1] = "inventory" /\ pc[1] = "threw"
    /\ Statements(1) = <<Ev("BEGIN", 0, TRUE), Ev("INSERT", 1, TRUE), Ev("INSERT", 2, TRUE),
                         Ev("COMMIT", 0, FALSE), Ev("ROLLBACK", 0, TRUE)>>

\* the connections run r has obtained from the pool
Acquired(r) == Len(SelectSeq(log[r], LAMBDA e : e.op = "connect" /\ e.ok))

\* C24: a connection obtained from the pool is released exactly once on
\* every path of the upsert, also when ROLLBACK is rejected: no release
\* without a connection, none twice, nothing on the connection after the
\* release, and none left unreleased when the upsert returns or throws.
C24_ReleasedOnce ==
    \A r \in Runs :
        /\ Calls(r, "release") <= Acquired(r)
        /\ Acquired(r) <= 1
        /\ \A i \in 1..Len(log[r]) : log[r][i].op = "release" => i = Len(log[r])
        /\ UpsertOver(r) => Calls(r, "release") = Acquired(r)

C24_Witness ==
    /\ kind[1] = "categories" /\ pc[1] = "threw"
    /\ log[1] = <<Ev("connect", 0, TRUE), Ev("BEGIN", 0, TRUE), Ev("INSERT", 1, FALSE),
                  Ev("ROLLBACK", 0, FALSE), Ev("release", 0, TRUE)>>

\* request k of run r asked for a page with a cursor and was answered 429
LimitedOnCursor(r, k) == reqs[r][k].status = 429 /\ reqs[r][k].cursor # 0

\* a 429 on a page with a cursor is followed by the same request again, and
\* the fetch does not return on it
HoldsPage(r) ==
    \A k \in 1..Len(reqs[r]) :
        LimitedOnCursor(r, k) =>
            /\ pc[r] # "fetched" \/ k < Len(reqs[r])
            /\ k < Len(reqs[r]) => reqs[r][k + 1].cursor = reqs[r][k].cursor

\* a fetch that returned without a 429 on its first request returns all pages
ReturnsWhole(r) ==
    (pc[r] = "fetched" /\ \A k \in 1..Len(reqs[r]) :
                             reqs[r][k].status = 429 => reqs[r][k].cursor # 0)
        => all[r] = Concat(pages)

\* C25: a paginated list fetch over a finite cursor chain that is answered
\* 429 finitely often ends: it returns, or throws on a fatal status.  While a
\* page with a cursor is answered 429 the fetch asks for the same page again,
\* does not go past it and does not return a partial result.
C25_FetchEnds ==
    /\ [](HoldsPage(1) /\ ReturnsWhole(1))
    /\ [](pc[1] = "threw" => 500 \in Statuses(1))
    /\ <>(pc[1] \in {"fetched", "threw"})

C25_Witness ==
    /\ pc[1] = "fetched" /\ Len(pages) = 2 /\ pages[1] # <<>> /\ pages[2] # <<>>
    /\ Len(reqs[1]) = 3
    /\ reqs[1][2] = [cursor |-> 1, status |-> 429]
    /\ reqs[1][3] = [cursor |-> 1, status |-> 200]
    /\ all[1] = pages[1] \o pages[2]

\* run r has committed its batch
Committed(r) == \E n \in 1..Len(commits) : commits[n] = r

\* the positions of run r's batch that carry a whole key (no NULL in it)
\* which no later position carries
LastOfKey(r) ==
    LET w == Written(r, rows[r])
    IN  { j \in 1..Len(w) :
            /\ SameKey(kind[r], w[j], w[j])
            /\ \A n \in (j + 1)..Len(w) : ~SameKey(kind[r], w[n], w[j]) }

\* two positions of run r's batch carry the same whole key, with different fields
RepeatsKey(r) ==
    LET w == Written(r, rows[r])
    IN  \E i, j \in 1..Len(w) : i < j /\ SameKey(kind[r], w[i], w[j]) /\ w[i] # w[j]

\* the table of run r holds one row for the key at batch position j, and
\* the row has the values written at j
StoredOnceAs(r, j) ==
    LET w == Written(r, rows[r])
        table == store[Table(kind[r])]
        hit == { i \in 1..Len(table) : SameKey(kind[r], table[i], w[j]) }
    IN  /\ Cardinality(hit) = 1
        /\ \A i \in hit : \A f \in DOMAIN w[j] : table[i][f] = w[j][f]

AbsentQuantityKept(r) ==
    \A i \in 1..Len(all[r]) :
        (Truthy(all[r][i].catalog_object_id) /\ all[r][i].quantity = Absent) =>
            /\ Occurrences([n \in 1..Len(rows[r]) |-> rows[r][n].raw_payload], all[r][i])
                   = Occurrences(all[r], all[r][i])
            /\ \A n \in 1..Len(rows[r]) :
                   rows[r][n].raw_payload = all[r][i] => rows[r][n].quantity = 0

\* no row of the order batch comes from a line item without quantity
AbsentQuantityDropped(r) ==
    \A n \in 1..Len(rows[r]) :
        rows[r][n].raw_payload.quantity # Absent /\ rows[r][n].quantity > 0

\* C27: an absent quantity is read as the text "0": an inventory count
\* without quantity is kept and handed to the upsert with quantity 0, an
\* order line item without quantity is dropped as not positive.
C27_AbsentQuantityIsZero ==
    \A r \in Runs :
        /\ (kind[r] = "inventory" /\ Handed(r)) => AbsentQuantityKept(r)
        /\ kind[r] = "orders" => AbsentQuantityDropped(r)

C27_Witness ==
    /\ kind[1] = "inventory" /\ pc[1] = "done" /\ Committed(1)
    /\ \E n \in 1..Len(rows[1]) :
          rows[1][n].raw_payload.quantity = Absent /\ rows[1][n].quantity = 0
    /\ \E i \in 1..Len(store["inventory"]) :
          /\ store["inventory"][i].raw_payload.quantity = Absent
          /\ store["inventory"][i].quantity = 0
    /\ mapLineItemToRow(Order("O2", Items(<<LineNoQty, LineB>>)), "P4", LineNoQty) = Dropped
    /\ mapLineItemToRow(Order("O2", Items(<<LineNoQty, LineB>>)), "P4", LineB) # Dropped
====
